---- MODULE Spec2Model ----
(***************************************************************************)
(* A model of kortschak/polar: the ring buffer of cmd/internal/ring, the   *)
(* PMD listener (control-point exchanges and data dispatch) of pmd, and    *)
(* the setting codec of pmd.                                               *)
(***************************************************************************)
EXTENDS Integers, Sequences, FiniteSets, TLC

(***************************************************************************)
(* Bounds of the model.                                                    *)
(***************************************************************************)
\* capacity n handed to NewBuffer
Capacity == 4
\* total number of elements the Write calls of one run may carry
MaxTotal == 9

\* longest batch handed to Write; longer than the capacity so that the
\* len(src) >= len(r.data) branch is taken with a surplus
MaxBatch == Capacity + 1
\* longest destination handed to CopyTo and Read
MaxDst == Capacity + 1
\* largest count handed to Advance
MaxAdvance == Capacity + 1
\* head values kept in the model once head has left the backing store
HeadCap == Capacity + 2
\* the largest leading byte of the data notifications delivered, besides 255
\* (the dispatch table has indices 0..12)
MaxLeadByte == 13
\* the largest type tag of the settings and records handed to the codec,
\* besides 255 (the static table has indices 0..5)
MaxTag == 6
\* the largest number of values of a setting handed to write; records handed
\* to the decoders declare up to one more
MaxVals == 2
\* the longest destination handed to write (a valid setting takes at most 6)
MaxBuf == 7
\* the most bytes that follow the two header bytes of a record handed to the
\* decoders
MaxPayload == 4
\* the most bytes that follow the 10-byte header of a frame handed to
\* ECG.UnmarshalBinary
MaxTrace == 4
\* the most bytes that follow the three components of a frame handed to
\* Acc.UnmarshalBinary
MaxExtra == 1
\* capacity of the monitor's trace ring (3 * ECGSampleFreq in the monitor)
\* and the number of samples its plot takes, kept below the capacity as in
\* the monitor
MonCap == 3
MonWidth == MonCap - 1
\* the most samples of an ECG frame delivered to the monitor
MaxMonTrace == 2

VARIABLES
    r,          \* the ring.Buffer: [data, head, tail]; head and tail are 0-based
    panicked,   \* a run-time panic (index or slice bounds out of range) ended the run
    last,       \* the last call made on r: its name, arguments, result and the buffer before it
    total,      \* ghost: number of elements written so far; the i-th element written is i
    fifo,       \* ghost: the elements written and neither read, advanced over nor evicted
    used,       \* ghost: the mutating calls other than Write made so far
    within,     \* ghost: only Write and Read were called, never past the capacity, never Read on empty
    handlers,   \* Listener.handlers: the dispatch table, measurement type -> callback or Nil
    pc,         \* where the caller of Settings / SetHandler stands
    x,          \* the locals of the call in progress (command, measurement type, message, err)
    ctxDone,    \* the caller's context has expired
    armed,      \* a callback is subscribed to control-point notifications
    done,       \* the exchange's done channel is closed
    settings,   \* the response captured by the callback (settings in querySettings, resp in sendCommand)
    cb,         \* a control-point callback is running: it has stored the response, not yet closed done
    sent,       \* the messages written to the control point by the call in progress
    ret,        \* what the last call returned (kind Nil while none has returned)
    disp,       \* the last data notification dispatched and the callbacks it invoked
    want,       \* ghost: for each measurement type, the callback of the latest SetHandler call for it
    codec,      \* the last call made on the setting codec: its name, inputs and results
    dec,      \* the last call made on a frame decoder: its name, inputs and results
    mon       \* the monitor: the ECG callback, the consumption loop, the lock, the trace ring and the channels between them

ringVars == <<r, last, total, fifo, used, within>>

listenerVars == <<handlers, pc, x, ctxDone, armed, done, settings, cb, sent, ret, disp,
                  want>>

codecVars == <<codec>>

decodeVars == <<dec>>

monitorVars == <<mon>>

vars == <<r, panicked, last, total, fifo, used, within,
          handlers, pc, x, ctxDone, armed, done, settings, cb, sent, ret, disp,
          want, codec, dec, mon>>

Min(a, b) == IF a <= b THEN a ELSE b

(***************************************************************************)
(* Go's slices and the copy builtin, on sequences with 0-based offsets.    *)
(***************************************************************************)
\* s[lo:hi]
Slice(s, lo, hi) == SubSeq(s, lo + 1, hi)

\* the elements copy(dst, src) moves when len(dst) = dstLen; their number is
\* what copy returns
Copied(dstLen, src) == SubSeq(src, 1, Min(dstLen, Len(src)))

\* data after copy(data[at:], xs), for xs that fit
Overlay(data, at, xs) ==
    [i \in 1..Len(data) |->
        IF i > at /\ i <= at + Len(xs) THEN xs[i - at] ELSE data[i]]

(***************************************************************************)
(* ring.Buffer                                                             *)
(***************************************************************************)
NewBuffer(n) == [data |-> [i \in 1..n |-> 0], head |-> 0, tail |-> 0]

RingLen(b) ==
    IF b.head <= b.tail
    THEN b.tail - b.head
    ELSE Len(b.data) - b.head + b.tail

Size(b) == Len(b.data)

WriteKeepFirst(b, src) ==
    IF Len(src) >= Len(b.data)
    THEN [data |-> Slice(src, 0, Len(b.data)), head |-> 0, tail |-> Len(b.data)]
    ELSE LET n == Len(Copied(Len(b.data) - b.tail, src)) IN
         IF Len(src) <= n
         THEN [b EXCEPT !.data = Overlay(b.data, b.tail, src), !.tail = b.tail + n]
         ELSE LET t == Len(Copied(Len(b.data), Slice(src, n, Len(src)))) IN
              [data |-> Overlay(Overlay(b.data, b.tail, Slice(src, 0, n)),
                                0, Slice(src, n, Len(src))),
               head |-> IF t > b.head THEN t ELSE b.head,
               tail |-> t]

\* Write whose tail runs on past the end of the store instead of wrapping
WriteTailRunsOn(b, src) ==
    IF Len(src) >= Len(b.data)
    THEN [data |-> Overlay(b.data, 0, Slice(src, Len(src) - Len(b.data), Len(src))),
          head |-> 0,
          tail |-> Len(b.data)]
    ELSE [b EXCEPT !.data = Overlay(b.data, b.tail, src), !.tail = b.tail + Len(src)]

Write(b, src) ==
    IF Len(src) >= Len(b.data)
    THEN [data |-> Overlay(b.data, 0, Slice(src, Len(src) - Len(b.data), Len(src))),
          head |-> 0,
          tail |-> Len(b.data)]
    ELSE LET n == Len(Copied(Len(b.data) - b.tail, src)) IN
         IF Len(src) <= n
         THEN [b EXCEPT !.data = Overlay(b.data, b.tail, src), !.tail = b.tail + n]
         ELSE LET t == Len(Copied(Len(b.data), Slice(src, n, Len(src)))) IN
              [data |-> Overlay(Overlay(b.data, b.tail, Slice(src, 0, n)),
                                0, Slice(src, n, Len(src))),
               head |-> IF t > b.head THEN t ELSE b.head,
               tail |-> t]

\* r.data[r.head:] with head past len(r.data) is a slice-bounds panic
CopyToPanics(b) == ~(b.head < b.tail) /\ b.head > Len(b.data)

CopyToNoWrap(b, k) ==
    IF b.head < b.tail
    THEN Copied(k, Slice(b.data, b.head, b.tail))
    ELSE Copied(k, Slice(b.data, b.head, Len(b.data)))

\* the elements CopyTo puts in a destination of length k, in order; their
\* number is what CopyTo returns
CopyTo(b, k) ==
    IF b.head < b.tail
    THEN Copied(k, Slice(b.data, b.head, b.tail))
    ELSE LET first == Copied(k, Slice(b.data, b.head, Len(b.data))) IN
         first \o Copied(k - Len(first), Slice(b.data, 0, b.tail))

AdvanceNoClamp(b, n) ==
    IF b.head < b.tail
    THEN [b EXCEPT !.head = b.head + n]
    ELSE LET front == Len(b.data) - b.head IN
         IF n <= front
         THEN [b EXCEPT !.head = b.head + n]
         ELSE [b EXCEPT !.head = n - front]

Advance(b, n) ==
    IF b.head < b.tail
    THEN [b EXCEPT !.head = b.head + Min(n, b.tail - b.head)]
    ELSE LET front == Len(b.data) - b.head IN
         IF n <= front
         THEN [b EXCEPT !.head = b.head + n]
         ELSE [b EXCEPT !.head = n - front]

ReadAdvanceDst(b, k) ==
    LET out == CopyTo(b, k) IN [buf |-> Advance(b, k), out |-> out]

\* Read(dst) with len(dst) = k: the buffer after it and the elements returned
Read(b, k) ==
    LET out == CopyTo(b, k) IN [buf |-> Advance(b, Len(out)), out |-> out]

(***************************************************************************)
(* pmd: commands, settings and their wire form.                            *)
(***************************************************************************)
Nil == "nil"

MeasureSettings == 1
MeasureStart == 2
MeasureStop == 3
Online == 0
ECGType == 0
AccType == 2
measurementTypes == 13
ECGSampleFreq == 130
ECGResolution == 14
AccResolution == 16
AccSampleFreq25 == 25
AccRange2G == 2
SampleRateSetting == 0
ResolutionSetting == 1
RangeUnitSetting == 2
ChannelsSetting == 4
ConversionFactorSetting == 5
headerSize == 2
uint8Kind == 1
uint16Kind == 2
float32Kind == 3
\* first byte of every control-point response
responseTag == 240
sampleTypeOffset == 0
timeStampOffset == 1
frameTypeOffset == 9
dataOffset == 10
ECGFrameType0 == 0
ECGSamplingStride == 3
AccFrameType0 == 0
AccFrameType1 == 1
AccFrameType2 == 2
\* shortest control-point response querySettings accepts
minResponse == 5
\* offset of the status byte in a control-point response
statusOffset == 3

\* the size in bytes of an element of each kind (uint8Size, uint16Size, float32Size)
KindSize(kind) == CASE kind = uint8Kind -> 1 [] kind = uint16Kind -> 2 [] OTHER -> 4

\* settingTypes with ChannelsSetting entered as a 16-bit setting
settingTypesWideChannels ==
    [t \in 0..5 |->
        CASE t \in {SampleRateSetting, ResolutionSetting, RangeUnitSetting, ChannelsSetting}
                -> [typ |-> uint16Kind, n |-> 1, size |-> 2]
          [] t = ConversionFactorSetting -> [typ |-> float32Kind, n |-> 1, size |-> 4]
          [] OTHER -> [typ |-> 0, n |-> 0, size |-> 0]]

\* settingTypes: index 3 is the zero value of the array's element type
settingTypes ==
    [t \in 0..5 |->
        CASE t \in {SampleRateSetting, ResolutionSetting, RangeUnitSetting}
                -> [typ |-> uint16Kind, n |-> 1, size |-> 2]
          [] t = ChannelsSetting -> [typ |-> uint8Kind, n |-> 1, size |-> 1]
          [] t = ConversionFactorSetting -> [typ |-> float32Kind, n |-> 1, size |-> 4]
          [] OTHER -> [typ |-> 0, n |-> 0, size |-> 0]]

Uint8(t, val) == [kind |-> uint8Kind, Type |-> t, Val |-> val]
Uint16(t, val) == [kind |-> uint16Kind, Type |-> t, Val |-> val]
Float32(t, val) == [kind |-> float32Kind, Type |-> t, Val |-> val]

RECURSIVE Pow256(_)
Pow256(i) == IF i = 0 THEN 1 ELSE 256 * Pow256(i - 1)

\* binary.BigEndian.PutUintN: the w bytes of v, most significant first
PutBE(v, w) == [i \in 1..w |-> (v \div Pow256(w - i)) % 256]

\* binary.LittleEndian.PutUintN: the w bytes of v, least significant first
PutLE(v, w) == [i \in 1..w |-> (v \div Pow256(i - 1)) % 256]

\* binary.LittleEndian.UintN of the first w bytes of b
RECURSIVE GetLE(_, _)
GetLE(b, w) == IF w = 0 THEN 0 ELSE b[1] + 256 * GetLE(Tail(b), w - 1)

\* math.Float32frombits(binary.LittleEndian.Uint32(b)); a float32 is held as
\* the 32-bit two's complement integer that has its bits, which PutLE turns
\* back into those bits
Float32frombits(b) ==
    GetLE(b, 3) + (IF b[4] < 128 THEN b[4] ELSE b[4] - 256) * Pow256(3)

\* the element UnmarshalBinary of the kind's type reads from its bytes
Element(kind, b) ==
    IF kind = float32Kind THEN Float32frombits(b) ELSE GetLE(b, KindSize(kind))

RECURSIVE Flatten(_)
Flatten(ss) == IF ss = <<>> THEN <<>> ELSE Head(ss) \o Flatten(Tail(ss))

\* Setting.Size
SettingSize(s) == headerSize + Len(s.Val) * KindSize(s.kind)

\* settingSize(s...)
RECURSIVE settingSize(_)
settingSize(ss) == IF ss = <<>> THEN 0 ELSE SettingSize(Head(ss)) + settingSize(Tail(ss))

\* Setting.write without the comparison of the element width
SettingWriteAnyWidth(s, dstLen) ==
    IF \/ s.Type >= 6
       \/ settingTypes[s.Type].n # Len(s.Val)
    THEN [n |-> 0, err |-> "invalid setting type", bytes |-> <<>>]
    ELSE IF dstLen < SettingSize(s)
    THEN [n |-> 0, err |-> "dst too short", bytes |-> <<>>]
    ELSE [n |-> SettingSize(s), err |-> Nil,
          bytes |-> <<s.Type, Len(s.Val) % 256>>
                        \o Flatten([i \in 1..Len(s.Val) |-> PutLE(s.Val[i], KindSize(s.kind))])]

\* Setting.write into a destination of dstLen bytes: the count and error
\* returned and the bytes stored at the front of the destination
SettingWrite(s, dstLen) ==
    IF \/ s.Type >= 6
       \/ settingTypes[s.Type].n # Len(s.Val)
       \/ settingTypes[s.Type].size # KindSize(s.kind)
    THEN [n |-> 0, err |-> "invalid setting type", bytes |-> <<>>]
    ELSE IF dstLen < SettingSize(s)
    THEN [n |-> 0, err |-> "dst too short", bytes |-> <<>>]
    ELSE [n |-> SettingSize(s), err |-> Nil,
          bytes |-> <<s.Type, Len(s.Val) % 256>>
                        \o Flatten([i \in 1..Len(s.Val) |-> PutLE(s.Val[i], KindSize(s.kind))])]

\* setCommand.write: byte(Command), byte(Record)<<7 | byte(Measure)
SetCommandWrite(com, rec, measure) ==
    LET hi == (rec * 128) % 256 IN
    <<com, IF hi = 128 /\ measure < 128 THEN measure + 128 ELSE measure>>

\* (*Uint8|*Uint16|*Float32).UnmarshalBinary storing the type tag before the
\* length of the values is checked
UnmarshalBinaryEager(w, data) ==
    IF Len(data) < headerSize
    THEN [err |-> "unexpected EOF", w |-> w]
    ELSE LET n == data[2]
             width == KindSize(w.kind) IN
         IF Len(data) < headerSize + n * width
         THEN [err |-> "unexpected EOF", w |-> [w EXCEPT !.Type = data[1]]]
         ELSE [err |-> Nil,
               w |-> [kind |-> w.kind, Type |-> data[1],
                      Val |-> [i \in 1..n |->
                                  Element(w.kind, Slice(data, headerSize + (i - 1) * width,
                                                        headerSize + i * width))]]]

\* (*Uint8|*Uint16|*Float32).UnmarshalBinary on the receiver w: the error
\* returned and the receiver afterwards
UnmarshalBinary(w, data) ==
    IF Len(data) < headerSize
    THEN [err |-> "unexpected EOF", w |-> w]
    ELSE LET n == data[2]
             width == KindSize(w.kind) IN
         IF Len(data) < headerSize + n * width
         THEN [err |-> "unexpected EOF", w |-> w]
         ELSE [err |-> Nil,
               w |-> [kind |-> w.kind, Type |-> data[1],
                      Val |-> [i \in 1..n |->
                                  Element(w.kind, Slice(data, headerSize + (i - 1) * width,
                                                        headerSize + i * width))]]]

\* var s Uint8|Uint16|Float32; err = s.UnmarshalBinary(data); set = s
UnmarshalSetting(kind, data) ==
    LET u == UnmarshalBinary([kind |-> kind, Type |-> 0, Val |-> <<>>], data) IN
    [err |-> u.err, set |-> u.w]

RECURSIVE parseSetting(_)
parseSetting(data) ==
    IF data = <<>>
    THEN [settings |-> <<>>, err |-> Nil]
    ELSE IF data[1] >= 6 \/ settingTypes[data[1]].typ = 0
    THEN [settings |-> <<>>, err |-> "unknown setting type"]
    ELSE LET u == UnmarshalSetting(settingTypes[data[1]].typ, data) IN
         IF u.err # Nil
         THEN [settings |-> <<>>, err |-> u.err]
         ELSE LET rest == parseSetting(Slice(data, SettingSize(u.set), Len(data))) IN
              [settings |-> <<u.set>> \o rest.settings, err |-> rest.err]

\* ECGHandler.Handle
ECGHandle(h) ==
    IF h = Nil
    THEN [com |-> MeasureStop, measure |-> ECGType, settings |-> <<>>, handle |-> Nil]
    ELSE [com |-> MeasureStart, measure |-> ECGType,
          settings |-> <<Uint16(SampleRateSetting, <<ECGSampleFreq>>),
                         Uint16(ResolutionSetting, <<ECGResolution>>)>>,
          handle |-> h]

\* AccHandler.Handle
AccHandle(freq, range, h) ==
    IF h = Nil
    THEN [com |-> MeasureStop, measure |-> AccType, settings |-> <<>>, handle |-> Nil]
    ELSE [com |-> MeasureStart, measure |-> AccType,
          settings |-> <<Uint16(SampleRateSetting, <<freq>>),
                         Uint16(ResolutionSetting, <<AccResolution>>),
                         Uint16(RangeUnitSetting, <<range>>)>>,
          handle |-> h]

\* the results of h.Handle() for the handlers SetHandler is called with: the
\* package's two handlers, with and without a callback, and two other
\* implementations of the Handler interface, one naming a measurement type
\* outside the table and one carrying a setting that does not encode
HandleResults ==
    { ECGHandle("cbECG"), ECGHandle(Nil),
      AccHandle(AccSampleFreq25, AccRange2G, "cbAcc"),
      AccHandle(AccSampleFreq25, AccRange2G, Nil),
      [com |-> MeasureStart, measure |-> measurementTypes, settings |-> <<>>,
       handle |-> "cbOther"],
      [com |-> MeasureStart, measure |-> measurementTypes - 1,
       settings |-> <<Uint16(ChannelsSetting, <<1>>)>>, handle |-> "cbOther"] }

\* measurement types Settings is called with
QueriedTypes == {ECGType, AccType}

\* control-point notifications the sensor may send
CPResponses ==
    { <<responseTag, MeasureSettings, 0, 0, 0, 0, 1, 130, 0, 1, 1, 14, 0>>,
      <<responseTag, MeasureSettings, 0, 1, 0>>,
      <<responseTag, MeasureSettings>>,
      <<responseTag, MeasureStart, 0, 0, 0>>,
      <<responseTag, MeasureStop, 0, 0, 0>>,
      <<responseTag, MeasureStart, 0, 1, 0>>,
      <<responseTag + 1, MeasureSettings, 0, 0, 0>>,
      <<responseTag, MeasureSettings, 0, 0, 0, 0, 1, 130>>,
      <<responseTag, MeasureSettings, 0, 0, 0, 0, 2, 25, 0, 50, 0>> }

\* data notifications the sensor may send: empty, a leading byte alone (the
\* types of the built-in handlers, a type between them that no handler in
\* HandleResults names, the last index of the dispatch table, values past its
\* end, and the largest byte), and frames with bytes after the leading one
LeadBytes ==
    {ECGType, ECGType + 1, AccType} \cup ((measurementTypes - 1)..MaxLeadByte) \cup {255}

DataPayloads ==
    {<<>>} \cup {<<b>> : b \in LeadBytes}
           \cup {<<b, 7, 9>> : b \in {ECGType, AccType, measurementTypes - 1}}

\* armed and disabled count the EnableNotifications(callback) and
\* EnableNotifications(nil) calls of the exchange; handle is the callback the
\* handler carried and prev the callback its slot held before the call
NoCall == [kind |-> Nil, com |-> 0, measure |-> 0, msg |-> <<>>, err |-> Nil,
           timedOut |-> FALSE, notified |-> 0, armed |-> 0, disabled |-> 0,
           handle |-> Nil, prev |-> Nil]
NoReturn == [kind |-> Nil, val |-> <<>>, err |-> Nil, com |-> 0, measure |-> 0,
             timedOut |-> FALSE, notified |-> 0, armed |-> 0, disabled |-> 0,
             handle |-> Nil, prev |-> Nil, resp |-> <<>>]
NoCodec == [op |-> Nil]
NoDec == [op |-> Nil]

\* the monitor once newMonitor has returned: the callback is idle, the loop
\* is in its select, the lock is free, nothing is plotted; writes and attempts count the ring
\* writes and the tick send attempts of the callback in progress, dropped
\* says its attempt took the default case, plotted counts the loop's plots
MonInit ==
    [cb |-> "idle", trace |-> <<>>, ok |-> FALSE, mu |-> "free",
     ring |-> NewBuffer(MonCap), loop |-> "select", hrTick |-> 0,
     cancelled |-> FALSE, display |-> "live",
     plot |-> <<>>, writes |-> 0, attempts |-> 0, dropped |-> FALSE]
\* afterStop: the notification is of the measurement type of a SetHandler call
\* with a nil callback that is in progress or was the last call made
NoDispatch == [op |-> Nil, buf |-> <<>>, invoked |-> <<>>, installed |-> FALSE,
               panicked |-> FALSE, afterStop |-> FALSE]

AfterStop(buf) ==
    /\ x.kind = "SetHandler"
    /\ x.handle = Nil
    /\ buf # <<>>
    /\ buf[1] = x.measure

(***************************************************************************)
(* The ideal bounded queue the buffer is compared with.                    *)
(***************************************************************************)
LastN(s, n) == SubSeq(s, Len(s) - Min(n, Len(s)) + 1, Len(s))
DropN(s, n) == SubSeq(s, Min(n, Len(s)) + 1, Len(s))
\* the batch of k elements written after `total` elements
Batch(k) == [i \in 1..k |-> total + i]

Call(op, k, src, out) ==
    [op |-> op, k |-> k, src |-> src, out |-> out, pre |-> r, fifo |-> fifo,
     within |-> within]

Init ==
    /\ r = NewBuffer(Capacity)
    /\ panicked = FALSE
    /\ last = [op |-> "NewBuffer", k |-> Capacity, src |-> <<>>, out |-> <<>>,
               pre |-> NewBuffer(Capacity), fifo |-> <<>>, within |-> TRUE]
    /\ total = 0
    /\ fifo = <<>>
    /\ used = {}
    /\ within = TRUE
    /\ handlers = [m \in 0..(measurementTypes - 1) |-> Nil]
    /\ pc = "idle"
    /\ x = NoCall
    /\ ctxDone = FALSE
    /\ armed = FALSE
    /\ done = FALSE
    /\ settings = <<>>
    /\ cb = FALSE
    /\ sent = <<>>
    /\ ret = NoReturn
    /\ disp = NoDispatch
    /\ want = [m \in 0..(measurementTypes - 1) |-> Nil]
    /\ codec = NoCodec
    /\ dec = NoDec
    /\ mon = MonInit

DoWrite ==
    \E k \in 0..MaxBatch :
        /\ ~panicked
        /\ total + k <= MaxTotal
        /\ r' = Write(r, Batch(k))
        /\ last' = Call("Write", k, Batch(k), <<>>)
        /\ total' = total + k
        /\ fifo' = LastN(fifo \o Batch(k), Capacity)
        /\ within' = (within /\ Len(fifo) + k <= Capacity)
        /\ UNCHANGED <<panicked, used>>
        /\ UNCHANGED <<listenerVars, codecVars, decodeVars, monitorVars>>

DoCopyTo ==
    \E k \in 0..MaxDst :
        /\ ~panicked
        /\ IF CopyToPanics(r)
           THEN /\ panicked' = TRUE
                /\ last' = Call("CopyTo", k, <<>>, <<>>)
           ELSE /\ panicked' = FALSE
                /\ last' = Call("CopyTo", k, <<>>, CopyTo(r, k))
        /\ UNCHANGED <<r, total, fifo, used, within>>
        /\ UNCHANGED <<listenerVars, codecVars, decodeVars, monitorVars>>

DoRead ==
    \E k \in 0..MaxDst :
        /\ ~panicked
        /\ IF CopyToPanics(r)
           THEN /\ panicked' = TRUE
                /\ last' = Call("Read", k, <<>>, <<>>)
                /\ UNCHANGED <<r, fifo>>
           ELSE /\ panicked' = FALSE
                /\ r' = Read(r, k).buf
                /\ last' = Call("Read", k, <<>>, Read(r, k).out)
                /\ fifo' = DropN(fifo, k)
        /\ used' = used \cup {"Read"}
        /\ within' = (within /\ Len(fifo) >= 1)
        /\ UNCHANGED total
        /\ UNCHANGED <<listenerVars, codecVars, decodeVars, monitorVars>>

DoAdvance ==
    \E n \in 0..MaxAdvance :
        /\ ~panicked
        /\ Advance(r, n).head <= HeadCap
        /\ r' = Advance(r, n)
        /\ last' = Call("Advance", n, <<>>, <<>>)
        /\ fifo' = DropN(fifo, n)
        /\ used' = used \cup {"Advance"}
        /\ within' = FALSE
        /\ UNCHANGED <<panicked, total>>
        /\ UNCHANGED <<listenerVars, codecVars, decodeVars, monitorVars>>

NextRing == DoWrite \/ DoCopyTo \/ DoRead \/ DoAdvance

SpecRing == Init /\ [][NextRing]_vars

(***************************************************************************)
(* pmd.Listener: Settings, SetHandler, the control-point exchange of       *)
(* querySettings and sendCommand, and dispatch of data notifications.      *)
(***************************************************************************)
\* the message sendCommand builds: the preface, then each setting; the first
\* setting that does not encode ends the call with its error
SendCommandMsgReversed(com, rec, measure, ss) ==
    LET size == settingSize(ss)
        offs == [i \in 1..Len(ss) |-> settingSize(SubSeq(ss, 1, i - 1))]
        outs == [i \in 1..Len(ss) |-> SettingWrite(ss[i], size - offs[i])]
        bad  == {i \in 1..Len(ss) : outs[i].err # Nil} IN
    IF bad # {}
    THEN [err |-> outs[CHOOSE i \in bad : \A j \in bad : i <= j].err, msg |-> <<>>]
    ELSE [err |-> Nil,
          msg |-> SetCommandWrite(com, rec, measure)
                    \o Flatten([i \in 1..Len(ss) |-> outs[Len(ss) + 1 - i].bytes])]

SendCommandMsg(com, rec, measure, ss) ==
    LET size == settingSize(ss)
        offs == [i \in 1..Len(ss) |-> settingSize(SubSeq(ss, 1, i - 1))]
        outs == [i \in 1..Len(ss) |-> SettingWrite(ss[i], size - offs[i])]
        bad  == {i \in 1..Len(ss) : outs[i].err # Nil} IN
    IF bad # {}
    THEN [err |-> outs[CHOOSE i \in bad : \A j \in bad : i <= j].err, msg |-> <<>>]
    ELSE [err |-> Nil,
          msg |-> SetCommandWrite(com, rec, measure)
                    \o Flatten([i \in 1..Len(ss) |-> outs[i].bytes])]

\* what querySettings returns once the subscription is disabled
QueryResultNoStatus(com, resp, err) ==
    IF Len(resp) < minResponse
    THEN [val |-> <<>>, err |-> "short response"]
    ELSE IF resp[1] # responseTag \/ resp[2] # com
    THEN [val |-> <<>>, err |-> "invalid response"]
    ELSE [val |-> parseSetting(Slice(resp, minResponse, Len(resp))).settings,
          err |-> parseSetting(Slice(resp, minResponse, Len(resp))).err]

QueryResult(com, resp, err) ==
    IF Len(resp) < minResponse
    THEN [val |-> <<>>, err |-> "short response"]
    ELSE IF resp[1] # responseTag \/ resp[2] # com
    THEN [val |-> <<>>, err |-> "invalid response"]
    ELSE IF resp[statusOffset + 1] # 0
    THEN [val |-> <<>>, err |-> "invalid response status"]
    ELSE [val |-> parseSetting(Slice(resp, minResponse, Len(resp))).settings,
          err |-> parseSetting(Slice(resp, minResponse, Len(resp))).err]

\* sendCommand returning the response and no error
CommandResultNoErr(resp, err) == [val |-> resp, err |-> Nil]

\* what sendCommand returns once the subscription is disabled
CommandResult(resp, err) == [val |-> resp, err |-> err]

Returned(kind, res) ==
    [kind |-> kind, val |-> res.val, err |-> res.err, com |-> x.com,
     measure |-> x.measure, timedOut |-> x.timedOut, notified |-> x.notified,
     armed |-> x.armed, disabled |-> x.disabled, handle |-> x.handle,
     prev |-> x.prev, resp |-> settings]

\* SetHandler's return before sendCommand subscribes
Failed(h, prev, err) ==
    [NoReturn EXCEPT !.kind = "SetHandler", !.err = err, !.com = h.com,
                     !.measure = h.measure, !.handle = h.handle, !.prev = prev]

\* int(measureTyp) >= len(l.handlers)
InvalidMeasure(m) == m >= measurementTypes

\* l.handlers[measureTyp] = handle
InstallNonNil(table, m, handle) ==
    IF handle = Nil THEN table ELSE [table EXCEPT ![m] = handle]

Install(table, m, handle) == [table EXCEPT ![m] = handle]

\* dispatch(buf) indexes the table with the leading byte
DispatchPanics(buf) == Len(buf) # 0 /\ buf[1] >= measurementTypes

\* dispatch(buf) taking the callback of the first slot whatever the leading byte
DispatchTargetFirstSlot(table, buf) ==
    IF Len(buf) = 0 THEN Nil ELSE table[ECGType]

\* the callback dispatch(buf) invokes, or Nil
DispatchTarget(table, buf) ==
    IF Len(buf) = 0 THEN Nil ELSE table[buf[1]]

\* Listener.Settings: querySettings builds the GetSettings preface
Settings ==
    \E m \in QueriedTypes :
        /\ ~panicked
        /\ pc = "idle"
        /\ ~cb
        /\ x' = [NoCall EXCEPT !.kind = "Settings", !.com = MeasureSettings,
                               !.measure = m,
                               !.msg = SetCommandWrite(MeasureSettings, Online, m)]
        /\ pc' = "arm"
        /\ ctxDone' = FALSE
        /\ settings' = <<>>
        /\ done' = FALSE
        /\ sent' = <<>>
        /\ ret' = NoReturn
        /\ UNCHANGED <<want, handlers, armed, cb, disp, panicked>>
        /\ UNCHANGED <<ringVars, codecVars, decodeVars, monitorVars>>

\* Listener.SetHandler reporting an invalid measurement type without returning
SetHandlerGoesOn ==
    \E h \in HandleResults :
        /\ ~panicked
        /\ pc = "idle"
        /\ ~cb
        /\ ctxDone' = FALSE
        /\ settings' = <<>>
        /\ done' = FALSE
        /\ sent' = <<>>
        /\ IF InvalidMeasure(h.measure)
           THEN /\ x' = [NoCall EXCEPT !.kind = "SetHandler", !.com = h.com,
                                       !.measure = h.measure, !.handle = h.handle,
                                       !.msg = SetCommandWrite(h.com, Online, h.measure)]
                /\ ret' = NoReturn
                /\ pc' = "arm"
                /\ UNCHANGED <<handlers, want>>
           ELSE LET built == SendCommandMsg(h.com, Online, h.measure, h.settings) IN
                /\ handlers' = Install(handlers, h.measure, h.handle)
                /\ want' = [want EXCEPT ![h.measure] = h.handle]
                /\ x' = [NoCall EXCEPT !.kind = "SetHandler", !.com = h.com,
                                       !.measure = h.measure, !.msg = built.msg,
                                       !.handle = h.handle,
                                       !.prev = handlers[h.measure]]
                /\ IF built.err # Nil
                   THEN /\ ret' = Failed(h, handlers[h.measure], built.err)
                        /\ pc' = "idle"
                   ELSE /\ ret' = NoReturn
                        /\ pc' = "arm"
        /\ UNCHANGED <<armed, cb, disp, panicked>>
        /\ UNCHANGED <<ringVars, codecVars, decodeVars, monitorVars>>

\* Listener.SetHandler up to the point where sendCommand subscribes
SetHandler ==
    \E h \in HandleResults :
        /\ ~panicked
        /\ pc = "idle"
        /\ ~cb
        /\ ctxDone' = FALSE
        /\ settings' = <<>>
        /\ done' = FALSE
        /\ sent' = <<>>
        /\ IF InvalidMeasure(h.measure)
           THEN /\ x' = [NoCall EXCEPT !.kind = "SetHandler", !.com = h.com,
                                       !.measure = h.measure, !.handle = h.handle]
                /\ ret' = Failed(h, Nil, "invalid measurement type")
                /\ pc' = "idle"
                /\ UNCHANGED <<handlers, want>>
           ELSE LET built == SendCommandMsg(h.com, Online, h.measure, h.settings) IN
                /\ handlers' = Install(handlers, h.measure, h.handle)
                /\ want' = [want EXCEPT ![h.measure] = h.handle]
                /\ x' = [NoCall EXCEPT !.kind = "SetHandler", !.com = h.com,
                                       !.measure = h.measure, !.msg = built.msg,
                                       !.handle = h.handle,
                                       !.prev = handlers[h.measure]]
                /\ IF built.err # Nil
                   THEN /\ ret' = Failed(h, handlers[h.measure], built.err)
                        /\ pc' = "idle"
                   ELSE /\ ret' = NoReturn
                        /\ pc' = "arm"
        /\ UNCHANGED <<armed, cb, disp, panicked>>
        /\ UNCHANGED <<ringVars, codecVars, decodeVars, monitorVars>>

\* done := make(chan struct{}); dev.EnableNotifications(func(buf) {...})
Arm ==
    /\ ~panicked
    /\ pc = "arm"
    /\ armed' = TRUE
    /\ done' = FALSE
    /\ pc' = "write"
    /\ x' = [x EXCEPT !.armed = x.armed + 1]
    /\ UNCHANGED <<want, handlers, ctxDone, settings, cb, sent, ret, disp, panicked>>
    /\ UNCHANGED <<ringVars, codecVars, decodeVars, monitorVars>>

\* dev.WriteWithoutResponse(msg)
WriteWithoutResponse ==
    /\ ~panicked
    /\ pc = "write"
    /\ sent' = Append(sent, x.msg)
    /\ pc' = "select"
    /\ UNCHANGED <<want, handlers, x, ctxDone, armed, done, settings, cb, ret, disp, panicked>>
    /\ UNCHANGED <<ringVars, codecVars, decodeVars, monitorVars>>

\* select: case <-ctx.Done(): return nil, ctx.Err()
SelectCtxDoneReturns ==
    /\ ~panicked
    /\ pc = "select"
    /\ ctxDone
    /\ x' = [x EXCEPT !.err = "context deadline exceeded", !.timedOut = TRUE]
    /\ pc' = "return"
    /\ UNCHANGED <<want, handlers, ctxDone, armed, done, settings, cb, sent, ret, disp, panicked>>
    /\ UNCHANGED <<ringVars, codecVars, decodeVars, monitorVars>>

\* select: case <-ctx.Done(): err = ctx.Err()
SelectCtxDone ==
    /\ ~panicked
    /\ pc = "select"
    /\ ctxDone
    /\ x' = [x EXCEPT !.err = "context deadline exceeded", !.timedOut = TRUE]
    /\ pc' = "disable"
    /\ UNCHANGED <<want, handlers, ctxDone, armed, done, settings, cb, sent, ret, disp, panicked>>
    /\ UNCHANGED <<ringVars, codecVars, decodeVars, monitorVars>>

\* select: case <-done:
SelectDone ==
    /\ ~panicked
    /\ pc = "select"
    /\ done
    /\ pc' = "disable"
    /\ UNCHANGED <<want, handlers, x, ctxDone, armed, done, settings, cb, sent, ret, disp, panicked>>
    /\ UNCHANGED <<ringVars, codecVars, decodeVars, monitorVars>>

\* dev.EnableNotifications(nil)
Disable ==
    /\ ~panicked
    /\ pc = "disable"
    /\ armed' = FALSE
    /\ pc' = "return"
    /\ x' = [x EXCEPT !.disabled = x.disabled + 1]
    /\ UNCHANGED <<want, handlers, ctxDone, done, settings, cb, sent, ret, disp, panicked>>
    /\ UNCHANGED <<ringVars, codecVars, decodeVars, monitorVars>>

\* the checks of querySettings after the exchange, or sendCommand's return
Return ==
    /\ ~panicked
    /\ pc = "return"
    /\ ret' = IF x.kind = "Settings"
              THEN Returned("Settings", QueryResult(x.com, settings, x.err))
              ELSE Returned("SetHandler", CommandResult(settings, x.err))
    /\ pc' = "idle"
    /\ UNCHANGED <<want, handlers, x, ctxDone, armed, done, settings, cb, sent, disp, panicked>>
    /\ UNCHANGED <<ringVars, codecVars, decodeVars, monitorVars>>

\* the caller's deadline passes
Deadline ==
    /\ ~panicked
    /\ pc # "idle"
    /\ ~ctxDone
    /\ ctxDone' = TRUE
    /\ UNCHANGED <<want, handlers, pc, x, armed, done, settings, cb, sent, ret, disp, panicked>>
    /\ UNCHANGED <<ringVars, codecVars, decodeVars, monitorVars>>

\* the transport delivers a control-point notification to the subscribed
\* callback: settings = bytes.Clone(buf)
NotifyStore ==
    \E buf \in CPResponses :
        /\ ~panicked
        /\ armed
        /\ ~cb
        /\ settings' = buf
        /\ cb' = TRUE
        /\ x' = [x EXCEPT !.notified = IF x.notified < 2 THEN x.notified + 1 ELSE 2]
        /\ UNCHANGED <<want, handlers, pc, ctxDone, armed, done, sent, ret, disp, panicked>>
        /\ UNCHANGED <<ringVars, codecVars, decodeVars, monitorVars>>

\* the callback goes on: close(done), a panic when done is closed already
NotifyClose ==
    /\ ~panicked
    /\ cb
    /\ cb' = FALSE
    /\ IF done
       THEN panicked' = TRUE /\ UNCHANGED done
       ELSE done' = TRUE /\ UNCHANGED panicked
    /\ UNCHANGED <<want, handlers, pc, x, ctxDone, armed, settings, sent, ret, disp>>
    /\ UNCHANGED <<ringVars, codecVars, decodeVars, monitorVars>>

\* the transport delivers a data notification: Listener.dispatch(buf)
Dispatch ==
    \E buf \in DataPayloads :
        /\ ~panicked
        /\ IF DispatchPanics(buf)
           THEN /\ panicked' = TRUE
                /\ disp' = [op |-> "dispatch", buf |-> buf, invoked |-> <<>>,
                            installed |-> FALSE, panicked |-> TRUE,
                            afterStop |-> AfterStop(buf)]
           ELSE LET handle == DispatchTarget(handlers, buf) IN
                /\ panicked' = FALSE
                /\ disp' = [op |-> "dispatch", buf |-> buf,
                            invoked |-> IF handle # Nil
                                        THEN <<[handle |-> handle, buf |-> buf]>>
                                        ELSE <<>>,
                            installed |-> handle # Nil,
                            panicked |-> FALSE,
                            afterStop |-> AfterStop(buf)]
        /\ UNCHANGED <<want, handlers, pc, x, ctxDone, armed, done, settings, cb, sent, ret>>
        /\ UNCHANGED <<ringVars, codecVars, decodeVars, monitorVars>>

NextListener ==
    \/ Settings \/ SetHandler \/ Arm \/ WriteWithoutResponse
    \/ SelectCtxDone \/ SelectDone \/ Disable \/ Return
    \/ Deadline \/ NotifyStore \/ NotifyClose \/ Dispatch

SpecListener == Init /\ [][NextListener]_vars

\* the control-point exchanges alone, with a calling goroutine that is
\* scheduled whenever it can take a step and a deadline timer that fires
NextExchange ==
    \/ Settings \/ SetHandler \/ Arm \/ WriteWithoutResponse
    \/ SelectCtxDone \/ SelectDone \/ Disable \/ Return
    \/ Deadline \/ NotifyStore \/ NotifyClose

\* the steps of the goroutine that made the call
CallerStep ==
    Arm \/ WriteWithoutResponse \/ SelectCtxDone \/ SelectDone \/ Disable \/ Return

SpecExchangeFair ==
    /\ Init
    /\ [][NextExchange]_vars
    /\ WF_vars(CallerStep)
    /\ WF_vars(Deadline)

(***************************************************************************)
(* The setting codec: write, UnmarshalBinary and parseSetting applied to   *)
(* settings, destinations and records drawn from bounded sets; a run makes *)
(* one call, so the runs are the calls.                                    *)
(***************************************************************************)
\* all sequences over S of length at most n
RECURSIVE SeqsUpTo(_, _)
SeqsUpTo(S, n) ==
    IF n = 0 THEN {<<>>}
    ELSE LET shorter == SeqsUpTo(S, n - 1) IN
         shorter \cup {Append(q, e) : q \in shorter, e \in S}

\* SettingType values handed to the codec
SettingTags == (0..MaxTag) \cup {255}

\* element values of each kind: uint8, uint16, and float32 (0, 1.0, a NaN,
\* -1.0 and the value whose bits are all ones)
Uint8Values == {0, 1, 255}
Uint16Values == {0, 130, 256, 65535}
Float32Values == {0, 1065353216, 2143289344, -1082130432, -1}

\* Uint8{...}, Uint16{...} and Float32{...} values handed to write
SettingInputs ==
    {Uint8(t, v) : t \in SettingTags, v \in SeqsUpTo(Uint8Values, MaxVals)}
        \cup {Uint16(t, v) : t \in SettingTags, v \in SeqsUpTo(Uint16Values, MaxVals)}
        \cup {Float32(t, v) : t \in SettingTags, v \in SeqsUpTo(Float32Values, MaxVals)}

\* destinations handed to write, filled with 0xAA
Destinations == {[i \in 1..n |-> 170] : n \in 0..MaxBuf}

\* byte slices handed to UnmarshalBinary and parseSetting: nothing, a type
\* tag alone, and a type tag and a count followed by up to MaxPayload bytes
Records ==
    {<<>>} \cup {<<t>> : t \in SettingTags}
           \cup {<<t, n>> \o p : t \in SettingTags, n \in 0..(MaxVals + 1),
                                  p \in SeqsUpTo({0, 1, 255}, MaxPayload)}

\* receivers of UnmarshalBinary: the zero value of each type, and a Uint16
\* that already holds a setting
Receivers ==
    {Uint8(0, <<>>), Uint16(0, <<>>), Float32(0, <<>>),
     Uint16(ResolutionSetting, <<ECGResolution>>)}

\* s.write(dst)
CodecWrite ==
    /\ codec = NoCodec
    /\ \E s \in SettingInputs, dst \in Destinations :
        LET out == SettingWrite(s, Len(dst)) IN
        /\ codec' = [op |-> "write", s |-> s, dst |-> dst, n |-> out.n,
                     err |-> out.err, after |-> Overlay(dst, 0, out.bytes)]
        /\ UNCHANGED <<panicked, ringVars, listenerVars, decodeVars, monitorVars>>

\* dst := make([]byte, s.Size()); s.write(dst); then UnmarshalBinary(dst) on
\* a zero receiver of the setting's type, and parseSetting(dst)
CodecRoundTrip ==
    /\ codec = NoCodec
    /\ \E s \in SettingInputs :
        LET dst == [i \in 1..SettingSize(s) |-> 0]
            out == SettingWrite(s, Len(dst))
            after == Overlay(dst, 0, out.bytes) IN
        /\ codec' = [op |-> "roundtrip", s |-> s, n |-> out.n, err |-> out.err,
                     after |-> after,
                     back |-> UnmarshalBinary([kind |-> s.kind, Type |-> 0, Val |-> <<>>],
                                              after),
                     parsed |-> parseSetting(after)]
        /\ UNCHANGED <<panicked, ringVars, listenerVars, decodeVars, monitorVars>>

\* w.UnmarshalBinary(data)
CodecUnmarshal ==
    /\ codec = NoCodec
    /\ \E w \in Receivers, data \in Records :
        LET out == UnmarshalBinary(w, data) IN
        /\ codec' = [op |-> "unmarshal", w |-> w, data |-> data, err |-> out.err,
                     after |-> out.w]
        /\ UNCHANGED <<panicked, ringVars, listenerVars, decodeVars, monitorVars>>

\* parseSetting(data)
CodecParse ==
    /\ codec = NoCodec
    /\ \E data \in Records :
        LET out == parseSetting(data) IN
        /\ codec' = [op |-> "parse", data |-> data, err |-> out.err,
                     settings |-> out.settings]
        /\ UNCHANGED <<panicked, ringVars, listenerVars, decodeVars, monitorVars>>

NextCodec == CodecWrite \/ CodecRoundTrip \/ CodecUnmarshal \/ CodecParse

SpecCodec == Init /\ [][NextCodec]_vars

(***************************************************************************)
(* The frame decoders: leInt24, ECG.UnmarshalBinary and                    *)
(* Acc.UnmarshalBinary applied to bytes drawn from bounded sets; a run     *)
(* makes one call.  An index or slice expression out of range is a panic.  *)
(***************************************************************************)
RECURSIVE Pow2(_)
Pow2(i) == IF i = 0 THEN 1 ELSE 2 * Pow2(i - 1)

\* bit i of the int32 v in two's complement
Bit(v, i) == IF i = 31 THEN (IF v < 0 THEN 1 ELSE 0) ELSE (v \div Pow2(i)) % 2

\* the sum of the bits 0..i of a | b
RECURSIVE OrLow(_, _, _)
OrLow(a, b, i) ==
    (IF Bit(a, i) = 1 \/ Bit(b, i) = 1 THEN Pow2(i) ELSE 0)
        + (IF i = 0 THEN 0 ELSE OrLow(a, b, i - 1))

\* a | b on int32
Or32(a, b) ==
    IF a < 0 \/ b < 0
    THEN (OrLow(a, b, 30) - 2147483647) - 1
    ELSE OrLow(a, b, 30)

\* int8(b) and int16(v) of an unsigned value
Int8Unsigned(b) == b

Int8(b) == IF b < 128 THEN b ELSE b - 256

Int16(v) == IF v < 32768 THEN v ELSE v - 65536

\* int32(b[0]) | int32(b[1])<<8 | int32(b[2])<<16
leInt24Unsigned(b) ==
    Or32(Or32(b[1], b[2] * 256), b[3] * 65536)

\* leInt24 on a slice of at least 3 bytes:
\* int32(b[0]) | int32(b[1])<<8 | int32(int8(b[2]))<<16
leInt24(b) ==
    Or32(Or32(b[1], b[2] * 256), Int8(b[3]) * 65536)

\* the ECG and Acc values: the time is held as the 8 timestamp bytes it is
\* computed from
ZeroECG == [Timestamp |-> <<>>, Trace |-> <<>>]
ZeroAcc == [Timestamp |-> <<>>, X |-> 0, Y |-> 0, Z |-> 0]

\* binary.LittleEndian.Uint64(data[timeStampOffset:]) and time.Unix of it
TimestampOf(data) == Slice(data, timeStampOffset, timeStampOffset + 8)

\* ECG.UnmarshalBinary accepting every frame type
DecodeECGAnyFrame(m, data) ==
    IF Len(data) <= sampleTypeOffset
    THEN [panic |-> TRUE, err |-> Nil, m |-> m]
    ELSE IF data[sampleTypeOffset + 1] # ECGType
    THEN [panic |-> FALSE, err |-> "expected sample type ecg", m |-> m]
    ELSE IF Len(data) <= frameTypeOffset
    THEN [panic |-> TRUE, err |-> Nil, m |-> m]
    ELSE LET trace == Slice(data, dataOffset, Len(data)) IN
         IF Len(trace) % ECGSamplingStride # 0
         THEN [panic |-> FALSE, err |-> "number of samples not a factor of 3", m |-> m]
         ELSE [panic |-> FALSE, err |-> Nil,
               m |-> [Timestamp |-> TimestampOf(data),
                      Trace |-> [i \in 1..(Len(trace) \div ECGSamplingStride) |->
                                    leInt24(Slice(trace, (i - 1) * ECGSamplingStride,
                                                  i * ECGSamplingStride))]]]

\* (*ECG).UnmarshalBinary on the receiver m: whether it panicked, the error
\* returned and the receiver afterwards
DecodeECG(m, data) ==
    IF Len(data) <= sampleTypeOffset
    THEN [panic |-> TRUE, err |-> Nil, m |-> m]
    ELSE IF data[sampleTypeOffset + 1] # ECGType
    THEN [panic |-> FALSE, err |-> "expected sample type ecg", m |-> m]
    ELSE IF Len(data) <= frameTypeOffset
    THEN [panic |-> TRUE, err |-> Nil, m |-> m]
    ELSE IF data[frameTypeOffset + 1] # ECGFrameType0
    THEN [panic |-> FALSE, err |-> "expected frame type ecg", m |-> m]
    ELSE LET trace == Slice(data, dataOffset, Len(data)) IN
         IF Len(trace) % ECGSamplingStride # 0
         THEN [panic |-> FALSE, err |-> "number of samples not a factor of 3", m |-> m]
         ELSE [panic |-> FALSE, err |-> Nil,
               m |-> [Timestamp |-> TimestampOf(data),
                      Trace |-> [i \in 1..(Len(trace) \div ECGSamplingStride) |->
                                    leInt24(Slice(trace, (i - 1) * ECGSamplingStride,
                                                  i * ECGSamplingStride))]]]

\* the component of width w at offset at of an accelerometer frame
Component(data, at, w) ==
    CASE w = 1 -> Int8(data[at + 1])
      [] w = 2 -> Int16(GetLE(Slice(data, at, at + 2), 2))
      [] w = 3 -> leInt24(Slice(data, at, at + 3))

\* (*Acc).UnmarshalBinary on the receiver m: whether it panicked, the error
\* returned and the receiver afterwards
DecodeAcc(m, data) ==
    IF Len(data) <= sampleTypeOffset
    THEN [panic |-> TRUE, err |-> Nil, m |-> m]
    ELSE IF data[sampleTypeOffset + 1] # AccType
    THEN [panic |-> FALSE, err |-> "expected sample type acc", m |-> m]
    ELSE IF Len(data) <= frameTypeOffset
    THEN [panic |-> TRUE, err |-> Nil, m |-> m]
    ELSE LET frame == data[frameTypeOffset + 1]
             w == frame + 1 IN
         IF frame \notin {AccFrameType0, AccFrameType1, AccFrameType2}
         THEN [panic |-> FALSE, err |-> "expected frame type acc0/acc1/acc2", m |-> m]
         ELSE IF Len(data) < dataOffset + 3 * w
         THEN [panic |-> TRUE, err |-> Nil, m |-> m]
         ELSE [panic |-> FALSE, err |-> Nil,
               m |-> [Timestamp |-> TimestampOf(data),
                      X |-> Component(data, dataOffset, w),
                      Y |-> Component(data, dataOffset + w, w),
                      Z |-> Component(data, dataOffset + 2 * w, w)]]

\* bytes the frames are made of
FrameBytes == {0, 1, 127, 128, 255}

\* the 8 timestamp bytes of every frame handed to the decoders
Stamp == <<1, 2, 3, 4, 5, 6, 7, 8>>

\* all prefixes of the frames of a set
Prefixes(S) ==
    {SubSeq(p, 1, Min(k, Len(p))) : p \in S, k \in 0..(dataOffset + 3 * 3 + MaxExtra)}

\* frames handed to ECG.UnmarshalBinary: a leading byte (ECG, and two other
\* types), the timestamp, a frame type and up to MaxTrace bytes, and the
\* frames cut short inside the header
ECGFrames ==
    LET whole == {<<t>> \o Stamp \o <<f>> \o p :
                     t \in {ECGType, ECGType + 1, AccType}, f \in {0, 1},
                     p \in SeqsUpTo(FrameBytes, MaxTrace)} IN
    whole \cup {SubSeq(<<t>> \o Stamp \o <<0>>, 1, k) :
                   t \in {ECGType, AccType}, k \in 0..dataOffset}

\* the components of each width a frame may carry
Components(w) ==
    CASE w = 1 -> {<<0>>, <<1>>, <<127>>, <<128>>, <<255>>}
      [] w = 2 -> {<<0, 0>>, <<1, 0>>, <<255, 127>>, <<0, 128>>, <<255, 255>>}
      [] w = 3 -> {<<0, 0, 0>>, <<1, 0, 0>>, <<255, 255, 127>>, <<0, 0, 128>>,
                   <<255, 255, 255>>}

\* frames handed to Acc.UnmarshalBinary: a leading byte, the timestamp, a
\* frame type 0..3, three components of the width of the frame type (of
\* width 1 for frame type 3) and up to MaxExtra bytes more, and every prefix
\* of such a frame
AccFrames ==
    LET of(f) == {<<t>> \o Stamp \o <<f>> \o cx \o cy \o cz \o e :
                     t \in {AccType, ECGType},
                     cx \in Components(IF f = 3 THEN 1 ELSE f + 1),
                     cy \in Components(IF f = 3 THEN 1 ELSE f + 1),
                     cz \in Components(IF f = 3 THEN 1 ELSE f + 1),
                     e \in SeqsUpTo({7}, MaxExtra)} IN
    Prefixes(UNION {of(f) : f \in 0..3})

\* receivers of the decoders: the zero value and a value already decoded
ECGReceivers == {ZeroECG, [Timestamp |-> Stamp, Trace |-> <<5, -5>>]}
AccReceivers == {ZeroAcc, [Timestamp |-> Stamp, X |-> 5, Y |-> -5, Z |-> 9]}

\* leInt24(b)
CallLeInt24 ==
    /\ dec = NoDec
    /\ \E b \in {<<b0, b1, b2>> : b0 \in FrameBytes, b1 \in FrameBytes, b2 \in FrameBytes} :
        dec' = [op |-> "leInt24", b |-> b, out |-> leInt24(b)]
    /\ UNCHANGED <<panicked, ringVars, listenerVars, codecVars, monitorVars>>

\* m.UnmarshalBinary(data) on an ECG
CallDecodeECG ==
    /\ dec = NoDec
    /\ \E m \in ECGReceivers, data \in ECGFrames :
        LET out == DecodeECG(m, data) IN
        dec' = [op |-> "ecg", m |-> m, data |-> data, panic |-> out.panic,
                err |-> out.err, after |-> out.m]
    /\ UNCHANGED <<panicked, ringVars, listenerVars, codecVars, monitorVars>>

\* m.UnmarshalBinary(data) on an Acc
CallDecodeAcc ==
    /\ dec = NoDec
    /\ \E m \in AccReceivers, data \in AccFrames :
        LET out == DecodeAcc(m, data) IN
        dec' = [op |-> "acc", m |-> m, data |-> data, panic |-> out.panic,
                err |-> out.err, after |-> out.m]
    /\ UNCHANGED <<panicked, ringVars, listenerVars, codecVars, monitorVars>>

NextDecode == CallLeInt24 \/ CallDecodeECG \/ CallDecodeAcc

SpecDecode == Init /\ [][NextDecode]_vars

(***************************************************************************)
(* The monitor: the ECG and heart-rate callbacks run on the transport's    *)
(* delivery context, one at a time; the consumption loop is a goroutine of *)
(* its own; the display receives frames until its window is closed.        *)
(***************************************************************************)
\* the ECG frame with k samples of value 1
MonFrame(k) ==
    <<ECGType>> \o Stamp \o <<ECGFrameType0>> \o Flatten([i \in 1..k |-> <<1, 0, 0>>])

\* notifications delivered to the ECG callback: frames of 0..MaxMonTrace
\* samples, a frame of another frame type, and an empty payload
MonFrames ==
    {MonFrame(k) : k \in 0..MaxMonTrace}
        \cup {<<ECGType>> \o Stamp \o <<1>>} \cup {<<>>}

\* what ecg.UnmarshalBinary(buf) makes of each of them, for a zero ecg
MonDecoded == {DecodeECG(ZeroECG, buf) : buf \in MonFrames}

\* the ECG callback up to muECG.Lock(): it returns at once without contact,
\* and after logging when the frame does not decode
EcgNotify ==
    /\ ~panicked
    /\ mon.cb = "idle"
    /\ ~mon.cancelled
    /\ mon.ok
    /\ \E out \in MonDecoded :
        IF out.panic
        THEN panicked' = TRUE /\ UNCHANGED mon
        ELSE /\ UNCHANGED panicked
             /\ mon' = IF out.err # Nil
                       THEN [mon EXCEPT !.writes = 0, !.attempts = 0, !.dropped = FALSE]
                       ELSE [mon EXCEPT !.cb = "lock", !.trace = out.m.Trace,
                                        !.writes = 0, !.attempts = 0, !.dropped = FALSE]
    /\ UNCHANGED <<ringVars, listenerVars, codecVars, decodeVars>>

\* muECG.Lock() in the callback
EcgLock ==
    /\ ~panicked
    /\ mon.cb = "lock"
    /\ mon.mu = "free"
    /\ mon' = [mon EXCEPT !.mu = "cb", !.cb = "write"]
    /\ UNCHANGED <<panicked, ringVars, listenerVars, codecVars, decodeVars>>

\* traceRing.Write(ecg.Trace)
EcgWrite ==
    /\ ~panicked
    /\ mon.cb = "write"
    /\ mon' = [mon EXCEPT !.ring = Write(mon.ring, mon.trace), !.cb = "send",
                          !.writes = mon.writes + 1]
    /\ UNCHANGED <<panicked, ringVars, listenerVars, codecVars, decodeVars>>

\* select { case ecgTick <- ecg.Timestamp: } with the loop receiving in its
\* select: the loop goes on to muECG.Lock()
EcgSend ==
    /\ ~panicked
    /\ mon.cb = "send"
    /\ mon.loop = "select"
    /\ mon' = [mon EXCEPT !.cb = "unlock", !.loop = "lock",
                          !.attempts = mon.attempts + 1]
    /\ UNCHANGED <<panicked, ringVars, listenerVars, codecVars, decodeVars>>

\* select { case ecgTick <- ...: } with no default case
EcgDropBlocks ==
    /\ ~panicked
    /\ mon.cb = "send"
    /\ FALSE
    /\ mon' = [mon EXCEPT !.cb = "unlock", !.attempts = mon.attempts + 1,
                          !.dropped = TRUE]
    /\ UNCHANGED <<panicked, ringVars, listenerVars, codecVars, decodeVars>>

\* select { ... default: }: the loop is not receiving on ecgTick at the
\* moment of the attempt (it is elsewhere, or has not parked in its select)
EcgDrop ==
    /\ ~panicked
    /\ mon.cb = "send"
    /\ mon' = [mon EXCEPT !.cb = "unlock", !.attempts = mon.attempts + 1,
                          !.dropped = TRUE]
    /\ UNCHANGED <<panicked, ringVars, listenerVars, codecVars, decodeVars>>

\* muECG.Unlock() and the callback's return
EcgUnlock ==
    /\ ~panicked
    /\ mon.cb = "unlock"
    /\ mon' = [mon EXCEPT !.cb = "idle", !.mu = "free"]
    /\ UNCHANGED <<panicked, ringVars, listenerVars, codecVars, decodeVars>>

\* the heart-rate callback, which belongs to another listener and may run
\* while the ECG callback does: ok.Store(hr.Contact), and unless err is set
\* select { case hrTick <- hr: default: } on a channel of capacity 1
HrNotify ==
    /\ ~panicked
    /\ ~mon.cancelled
    /\ \E contact \in BOOLEAN, failed \in BOOLEAN :
        mon' = [mon EXCEPT !.ok = contact,
                           !.hrTick = IF failed THEN mon.hrTick ELSE 1]
    /\ UNCHANGED <<panicked, ringVars, listenerVars, codecVars, decodeVars>>

\* case <-ctx.Done(): return
LoopCtxDone ==
    /\ ~panicked
    /\ mon.loop = "select"
    /\ mon.cancelled
    /\ mon' = [mon EXCEPT !.loop = "exited"]
    /\ UNCHANGED <<panicked, ringVars, listenerVars, codecVars, decodeVars>>

\* case hr := <-hrTick: the statistics and the history are updated
LoopHr ==
    /\ ~panicked
    /\ mon.loop = "select"
    /\ mon.hrTick = 1
    /\ mon' = [mon EXCEPT !.hrTick = 0, !.loop = "update"]
    /\ UNCHANGED <<panicked, ringVars, listenerVars, codecVars, decodeVars>>

\* update <- card on an unbuffered channel: taken when the display receives
LoopUpdate ==
    /\ ~panicked
    /\ mon.loop = "update"
    /\ mon.display = "live"
    /\ mon' = [mon EXCEPT !.loop = "select"]
    /\ UNCHANGED <<panicked, ringVars, listenerVars, codecVars, decodeVars>>

\* muECG.Lock() in the loop, after case <-ecgTick
LoopLock ==
    /\ ~panicked
    /\ mon.loop = "lock"
    /\ mon.mu = "free"
    /\ mon' = [mon EXCEPT !.mu = "loop", !.loop = "add"]
    /\ UNCHANGED <<panicked, ringVars, listenerVars, codecVars, decodeVars>>

\* if traceRing.Len() < ecg.width() { unlock; continue }; ecg.add(traceRing);
\* muECG.Unlock(): ecgPlot.add copies the ring into the plot's buffer of
\* width() samples and leaves the ring as it is
LoopAdd ==
    /\ ~panicked
    /\ mon.loop = "add"
    /\ IF RingLen(mon.ring) >= MonWidth /\ CopyToPanics(mon.ring)
       THEN panicked' = TRUE /\ UNCHANGED mon
       ELSE /\ UNCHANGED panicked
            /\ mon' = [mon EXCEPT !.mu = "free", !.loop = "select",
                                  !.plot = IF RingLen(mon.ring) < MonWidth
                                           THEN mon.plot
                                           ELSE CopyTo(mon.ring, MonWidth)]
    /\ UNCHANGED <<ringVars, listenerVars, codecVars, decodeVars>>

\* monitor.Close: the listeners are closed, then cancel() is called
Cancel ==
    /\ ~panicked
    /\ ~mon.cancelled
    /\ mon' = [mon EXCEPT !.cancelled = TRUE]
    /\ UNCHANGED <<panicked, ringVars, listenerVars, codecVars, decodeVars>>

\* the window is destroyed: loop(w, update) returns and receives no more
DisplayGone ==
    /\ ~panicked
    /\ mon.display = "live"
    /\ mon' = [mon EXCEPT !.display = "gone"]
    /\ UNCHANGED <<panicked, ringVars, listenerVars, codecVars, decodeVars>>

NextMonitor ==
    \/ EcgNotify \/ EcgLock \/ EcgWrite \/ EcgSend \/ EcgDrop \/ EcgUnlock
    \/ HrNotify
    \/ LoopCtxDone \/ LoopHr \/ LoopUpdate \/ LoopLock \/ LoopAdd
    \/ Cancel \/ DisplayGone

SpecMonitor == Init /\ [][NextMonitor]_vars

(***************************************************************************)
(* Claims about ring.Buffer, checked under SpecRing.                       *)
(***************************************************************************)
\* the last Min(total, Capacity) elements written, oldest first
LastWritten ==
    LET m == Min(total, Capacity) IN [i \in 1..m |-> total - m + i]

\* C1: after any sequence of Write calls that wrote at least one element,
\* CopyTo into a destination of length N returns exactly the last
\* min(total written, N) elements written, oldest first.
C1_OverwriteOnFull ==
    (used = {} /\ total >= 1 /\ last.op = "CopyTo" /\ last.k = Capacity)
        => last.out = LastWritten

\* C2: while the unread elements never exceed N and Read is called only with
\* at least one element unread, each Read(dst) returns exactly the
\* min(len(dst), unread) oldest unread elements in the order written, and the
\* elements left in the buffer are the unread ones that remain.
C2_RefinesFifo ==
    (within /\ last.op = "Read")
        => /\ ~panicked
           /\ last.out = SubSeq(last.fifo, 1, Min(last.k, Len(last.fifo)))
           /\ (fifo # <<>> => CopyTo(r, Capacity) = fifo)

\* C2 witness: a Read within the discipline from a full buffer whose head and
\* tail coincide inside the backing store, returning elements from both sides
\* of the wrap.
C2_Witness ==
    /\ within
    /\ last.op = "Read"
    /\ Len(last.fifo) = Capacity
    /\ last.pre.head = last.pre.tail
    /\ last.pre.head > 0
    /\ last.pre.head < Capacity
    /\ Len(last.out) = Capacity

\* C5: CopyTo(dst) returns exactly min(len(dst), Len()); in particular it
\* copies nothing from a newly created buffer.
C5_CopyToCountIsMinDstLen ==
    (last.op = "CopyTo" /\ ~panicked)
        => Len(last.out) = Min(last.k, RingLen(last.pre))

\* C6: in every state reachable by Write and Read, Len() equals the number of
\* elements written and not yet read or evicted.
C6_LenIsValidCount ==
    ("Advance" \notin used /\ ~panicked) => RingLen(r) = Len(fifo)

\* C7: on a wrapped, non-full buffer (head > tail) that Write and Read within
\* the capacity left holding c >= 1 elements,
\* Advance(n) discards exactly min(n, c) of them: Len() drops by min(n, c) and
\* never increases, so n >= c leaves the buffer empty, and tail and the data
\* are unchanged.
C7_AdvanceWrappedClamps ==
    (/\ last.op = "Advance"
     /\ last.pre.head > last.pre.tail
     /\ last.within
     /\ RingLen(last.pre) = Len(last.fifo)
     /\ Len(last.fifo) >= 1)
        => LET c == RingLen(last.pre) IN
           /\ RingLen(r) = c - Min(last.k, c)
           /\ RingLen(r) <= c
           /\ r.tail = last.pre.tail
           /\ r.data = last.pre.data

\* C8: on a non-wrapped buffer with head < tail, Advance(n) moves head forward
\* by exactly min(n, tail - head) and leaves tail and the data unchanged, so
\* head does not pass tail; a following Write of a batch shorter than the
\* capacity stores its first element at the unchanged tail (at index 0 when
\* tail is the end of the store).
C8_AdvanceNonWrapped ==
    [][/\ (last'.op = "Advance" /\ r.head < r.tail)
            => /\ r'.head = r.head + Min(last'.k, r.tail - r.head)
               /\ r'.head <= r'.tail
               /\ r'.tail = r.tail
               /\ r'.data = r.data
       /\ (/\ last.op = "Advance"
           /\ last.pre.head < last.pre.tail
           /\ last'.op = "Write"
           /\ last'.k >= 1
           /\ last'.k < Capacity)
            => /\ r.tail = last.pre.tail
               /\ r'.data[(IF r.tail < Capacity THEN r.tail ELSE 0) + 1]
                    = last'.src[1]]_vars

\* C8 witness: Advance on a non-wrapped buffer asked to discard more than it
\* holds.
C8_Witness ==
    /\ last.op = "Advance"
    /\ last.pre.head < last.pre.tail
    /\ last.pre.head > 0
    /\ last.k > last.pre.tail - last.pre.head
    /\ r.head = r.tail

\* C9: CopyTo changes neither head, tail nor the data; Read(dst) returns what
\* CopyTo(dst) returns and leaves the buffer as CopyTo(dst) followed by
\* Advance(count) leaves it.
C9_ReadIsCopyToThenAdvance ==
    /\ (last.op = "CopyTo" => r = last.pre)
    /\ (last.op = "Read" /\ ~panicked)
        => /\ last.out = CopyTo(last.pre, last.k)
           /\ r = Advance(last.pre, Len(CopyTo(last.pre, last.k)))

\* C9 witness: a Read into a destination longer than the buffer's content,
\* so that the count returned differs from len(dst).
C9_Witness ==
    /\ last.op = "Read"
    /\ ~panicked
    /\ Len(last.out) >= 1
    /\ Len(last.out) < last.k
    /\ last.pre.head > last.pre.tail

\* C10: Write of a batch with len(batch) >= N leaves head = 0, tail = N and
\* the backing store equal to the last N elements of the batch in order.
C10_WriteAtLeastCapacity ==
    (last.op = "Write" /\ Len(last.src) >= Capacity)
        => /\ r.head = 0
           /\ r.tail = Capacity
           /\ r.data = LastN(last.src, Capacity)

\* C10 witness: a batch longer than the capacity written over a wrapped
\* buffer.
C10_Witness ==
    /\ last.op = "Write"
    /\ Len(last.src) > Capacity
    /\ last.pre.head > last.pre.tail
    /\ last.pre.tail > 0

\* C31: in every state reached from NewBuffer(N) by Write, Read and CopyTo
\* calls, 0 <= head <= N, 0 <= tail <= N and Len() <= Size(), and no call
\* has sliced or indexed outside the backing store.
C31_IndicesWithinStore ==
    ("Advance" \notin used)
        => /\ 0 <= r.head /\ r.head <= Size(r)
           /\ 0 <= r.tail /\ r.tail <= Size(r)
           /\ RingLen(r) <= Size(r)
           /\ Size(r) = Capacity
           /\ ~panicked

\* C31 witness: without any direct Advance, a Read on a wrapped buffer whose
\* head stood at the end of the store took head round to the front.
C31_Witness ==
    /\ "Advance" \notin used
    /\ last.op = "Read"
    /\ last.pre.head = Capacity
    /\ last.pre.tail > 0
    /\ r.head > 0
    /\ r.head < Capacity

(***************************************************************************)
(* Claims about pmd.Listener, checked under SpecListener.                  *)
(***************************************************************************)
\* C3: when no control-point notification arrives before the caller's
\* deadline, Settings returns the context's deadline-exceeded error, which is
\* not one of the errors it returns for a short or invalid response.
C3_SettingsDeadlineError ==
    (ret.kind = "Settings" /\ ret.timedOut /\ ret.notified = 0)
        => ret.err = "context deadline exceeded"

\* C4: a data notification for which no callback is installed (an empty
\* payload, or any leading byte, inside the dispatch table or not) invokes no
\* callback, ends without a panic and leaves the dispatch table unchanged.
C4_UnmatchedDropped ==
    [][(disp' # disp /\ disp'.op = "dispatch" /\ ~disp'.installed)
            => /\ ~disp'.panicked
               /\ ~panicked'
               /\ disp'.invoked = <<>>
               /\ handlers' = handlers]_vars

\* C11: a Settings or SetHandler call that subscribed to control-point
\* responses has subscribed once and unsubscribed once by the time it returns,
\* whether its wait ended with a response or with the deadline, and no
\* subscription is armed outside the stretch between the two calls.
C11_DisabledOnceOnReturn ==
    /\ (ret.kind # Nil /\ ret.armed > 0) =>
            /\ ret.armed = 1
            /\ ret.disabled = 1
            /\ ~armed
            /\ pc = "idle"
    /\ (ret.kind # Nil /\ ret.armed = 0) => ret.disabled = 0
    /\ armed => pc \in {"write", "select", "disable"}

C11_Witness ==
    /\ ret.kind = "Settings"
    /\ ret.timedOut
    /\ ret.notified = 0
    /\ ret.armed = 1
    /\ ret.disabled = 1
    /\ ~armed

\* C12: a Settings call whose wait ended with one response fails when the
\* response has fewer than 5 bytes, when its first byte is not 0xF0 or its
\* second is not the GetSettings command, or when its byte at offset 3 is not
\* zero; otherwise it returns what parsing the bytes from offset 5 gives, which
\* for a payload of whole records is those records in order.
C12_SettingsResponseChecks ==
    (ret.kind = "Settings" /\ ~ret.timedOut /\ ret.notified = 1) =>
        LET resp == ret.resp IN
        IF Len(resp) < 5 THEN ret.err # Nil /\ ret.val = <<>>
        ELSE IF resp[1] # 240 \/ resp[2] # MeasureSettings
        THEN ret.err # Nil /\ ret.val = <<>>
        ELSE IF resp[4] # 0 THEN ret.err # Nil /\ ret.val = <<>>
        ELSE /\ ret.val = parseSetting(SubSeq(resp, 6, Len(resp))).settings
             /\ ret.err = parseSetting(SubSeq(resp, 6, Len(resp))).err
             /\ resp = <<240, 1, 0, 0, 0, 0, 1, 130, 0, 1, 1, 14, 0>> =>
                    /\ ret.err = Nil
                    /\ ret.val = << [kind |-> uint16Kind, Type |-> 0, Val |-> <<130>>],
                                    [kind |-> uint16Kind, Type |-> 1, Val |-> <<14>>] >>
             /\ resp = <<240, 1, 0, 0, 0, 0, 2, 25, 0, 50, 0>> =>
                    /\ ret.err = Nil
                    /\ ret.val = << [kind |-> uint16Kind, Type |-> 0, Val |-> <<25, 50>>] >>
             /\ resp = <<240, 1, 0, 0, 0, 0, 1, 130>> => ret.err # Nil

C12_Witness ==
    /\ ret.kind = "Settings"
    /\ ~ret.timedOut
    /\ ret.notified = 1
    /\ ret.resp = <<240, 1, 0, 0, 0, 0, 1, 130, 0, 1, 1, 14, 0>>
    /\ ret.err = Nil
    /\ Len(ret.val) = 2

\* C13: a SetHandler call whose wait ended with one acknowledgement returns an
\* error when the acknowledgement has fewer than 5 bytes, or does not echo
\* the command that was sent in its second byte, or has a byte other than
\* zero at offset 3.
C13_AckViolationsSurfaced ==
    (ret.kind = "SetHandler" /\ ret.armed = 1 /\ ~ret.timedOut /\ ret.notified = 1) =>
        LET resp == ret.resp IN
        (Len(resp) < 5 \/ resp[2] # ret.com \/ resp[4] # 0) => ret.err # Nil

\* C14: a SetHandler call whose handler names a measurement type of 13 or more
\* returns an error at once: it writes nothing to the control point, subscribes
\* to nothing, and every slot of the dispatch table holds what it held before.
C14_InvalidTypeRejected ==
    [][(x' # x /\ x'.kind = "SetHandler" /\ x'.measure >= 13) =>
            /\ ret'.kind = "SetHandler"
            /\ ret'.err # Nil
            /\ ret'.armed = 0
            /\ ~armed'
            /\ sent' = <<>>
            /\ pc' = "idle"
            /\ handlers' = handlers]_vars

C14_Witness ==
    /\ ret.kind = "SetHandler"
    /\ ret.measure >= 13
    /\ ret.err # Nil
    /\ handlers[ECGType] = "cbECG"
    /\ sent = <<>>

\* C15: once a SetHandler call with a nil callback has written its message, the
\* one message it wrote is the Stop command for its measurement type, and from
\* the start of the call its slot of the dispatch table is empty: a data
\* notification of that type dispatched from then on invokes no callback and
\* does not fail.
C15_NilCallbackStops ==
    [][(x.kind = "SetHandler" /\ x.handle = Nil /\ x.measure < 13) =>
            /\ x.com = MeasureStop
            /\ handlers[x.measure] = Nil
            /\ sent # <<>> => sent = << <<MeasureStop, x.measure>> >>
            /\ (pc \in {"select", "disable", "return"} \/ ret.armed = 1) => sent # <<>>
            /\ (disp' # disp /\ disp'.buf # <<>> /\ disp'.buf[1] = x.measure) =>
                    /\ disp'.invoked = <<>>
                    /\ ~disp'.panicked
                    /\ ~panicked']_vars

C15_Witness ==
    /\ ret.kind = "SetHandler"
    /\ ret.handle = Nil
    /\ ret.measure = ECGType
    /\ ret.prev = "cbECG"
    /\ ret.err = Nil
    /\ sent = << <<MeasureStop, ECGType>> >>
    /\ disp.afterStop
    /\ disp.buf = <<ECGType, 7, 9>>
    /\ disp.invoked = <<>>

\* the control-point message of a Start or Stop of the two built-in handlers
C16_Message(com, m) ==
    IF com = MeasureStop THEN <<3, m>>
    ELSE IF m = ECGType THEN <<2, 0, 0, 1, 130, 0, 1, 1, 14, 0>>
    ELSE <<2, 2, 0, 1, 25, 0, 1, 1, 16, 0, 2, 1, 2, 0>>

\* C16: every slot of the dispatch table holds the callback of the latest
\* SetHandler call made for its measurement type (none when that callback was
\* nil or no call was made); a SetHandler call that returned without error wrote
\* exactly one message to the control point, Start and the type followed by
\* the handler's settings in order for a callback, Stop and the type alone for
\* nil; and a step changes no slot but the one of the call it starts.
C16_SlotStateMachine ==
    [][/\ \A m \in 0..12 : handlers[m] = want[m]
       /\ (ret.kind = "SetHandler" /\ ret.err = Nil) =>
              /\ (handlers[ret.measure] # Nil) <=> (ret.handle # Nil)
              /\ (ret.handle # Nil) <=> (ret.com = MeasureStart)
              /\ (ret.handle = Nil) <=> (ret.com = MeasureStop)
              /\ Len(sent) = 1
              /\ ret.measure \in {ECGType, AccType} =>
                     sent[1] = C16_Message(ret.com, ret.measure)
       /\ handlers' # handlers =>
              /\ x'.kind = "SetHandler"
              /\ \A m \in 0..12 : m # x'.measure => handlers'[m] = handlers[m]]_vars

C16_Witness ==
    /\ ret.kind = "SetHandler"
    /\ ret.err = Nil
    /\ ret.measure = AccType
    /\ ret.handle = "cbAcc"
    /\ ret.prev = Nil
    /\ handlers[AccType] = "cbAcc"
    /\ handlers[ECGType] = "cbECG"
    /\ sent = << <<2, 2, 0, 1, 25, 0, 1, 1, 16, 0, 2, 1, 2, 0>> >>

\* C27: a Settings or SetHandler call in progress eventually returns: its
\* wait ends with the first notification or with the deadline.
C27_CallsReturn == (pc # "idle") ~> (pc = "idle")

\* C28: a SetHandler call that exchanged a message and whose wait ended with
\* no acknowledgement delivered returns the context's deadline error.
C28_NoAckIsDeadlineError ==
    (ret.kind = "SetHandler" /\ ret.armed = 1 /\ ret.notified = 0) =>
        /\ ret.timedOut
        /\ ret.err = "context deadline exceeded"

C28_Witness ==
    /\ ret.kind = "SetHandler"
    /\ ret.handle = "cbECG"
    /\ ret.armed = 1
    /\ ret.notified = 0
    /\ ret.err = "context deadline exceeded"

\* C29: when a SetHandler call for a type below 13 has returned an error, the
\* slot of its type holds what it held before the call.
C29_ErrorLeavesTable ==
    (ret.kind = "SetHandler" /\ ret.err # Nil /\ ret.measure < 13) =>
        handlers[ret.measure] = ret.prev

\* C30: an exchange during which two or more control-point notifications
\* were delivered does not end in a panic of the response callback.
C30_ToleratesSchedules ==
    (x.notified >= 2) => ~(panicked /\ ~disp.panicked)

\* C32: a data notification whose leading byte is a measurement type m with
\* a callback installed at slot m invokes, within the delivery, that callback
\* exactly once with the payload as delivered, and no callback of another
\* slot.
C32_DispatchInvokesSlot ==
    [][\A m \in 0..(measurementTypes - 1) :
          (/\ disp' # disp
           /\ disp'.buf # <<>>
           /\ disp'.buf[1] = m
           /\ handlers[m] # Nil)
              => /\ disp'.invoked = <<[handle |-> handlers[m], buf |-> disp'.buf]>>
                 /\ handlers' = handlers
                 /\ ~panicked']_vars

\* C32 witness: an accelerometer notification of three bytes was delivered
\* to the accelerometer slot's callback alone while the ECG slot held a
\* different callback.
C32_Witness ==
    /\ disp.op = "dispatch"
    /\ disp.buf = <<AccType, 7, 9>>
    /\ Len(disp.invoked) = 1
    /\ disp.invoked[1].buf = disp.buf
    /\ disp.invoked[1].handle = handlers[AccType]
    /\ handlers[ECGType] # Nil
    /\ handlers[ECGType] # handlers[AccType]

(***************************************************************************)
(* Claims about the setting codec, checked under SpecCodec.                *)
(***************************************************************************)
\* the static table as the claims state it: the type tags in use, and the
\* element width and value kind each requires; every tag requires one value
TableTags == {0, 1, 2, 4, 5}
TableWidth(t) == CASE t \in {0, 1, 2} -> 2 [] t = 4 -> 1 [] t = 5 -> 4
TableKind(t) == CASE t \in {0, 1, 2} -> uint16Kind [] t = 4 -> uint8Kind [] t = 5 -> float32Kind
WidthOf(kind) == CASE kind = uint8Kind -> 1 [] kind = uint16Kind -> 2 [] kind = float32Kind -> 4

\* the setting has a type tag of the table and the count and width it requires
MatchesTable(s) ==
    /\ s.Type \in TableTags
    /\ Len(s.Val) = 1
    /\ WidthOf(s.kind) = TableWidth(s.Type)

\* C17: a setting that matches the table, written into a buffer of Size()
\* bytes, is written without error and write returns Size(); UnmarshalBinary
\* of the written bytes gives the same type tag and the same values in order,
\* and parseSetting of them gives that one setting.
C17_RoundTrip ==
    (codec.op = "roundtrip" /\ MatchesTable(codec.s)) =>
        /\ codec.err = Nil
        /\ codec.n = 2 + Len(codec.s.Val) * WidthOf(codec.s.kind)
        /\ Len(codec.after) = codec.n
        /\ codec.back.err = Nil
        /\ codec.back.w.Type = codec.s.Type
        /\ codec.back.w.Val = codec.s.Val
        /\ codec.parsed.err = Nil
        /\ codec.parsed.settings = <<codec.s>>

C17_Witness ==
    /\ codec.op = "roundtrip"
    /\ codec.s = [kind |-> float32Kind, Type |-> 5, Val |-> <<-1082130432>>]
    /\ codec.after = <<5, 1, 0, 0, 128, 191>>
    /\ codec.back.w.Val = <<-1082130432>>
    /\ codec.parsed.settings = <<codec.s>>

\* C18: write of a setting whose type tag is not a tag of the table, or whose
\* number of values or element width is not the one the table requires, or
\* into a destination shorter than Size(), returns 0 and an error and leaves
\* every byte of the destination as it was.
C18_WriteRejects ==
    (codec.op = "write"
        /\ (~MatchesTable(codec.s)
               \/ Len(codec.dst) < 2 + Len(codec.s.Val) * WidthOf(codec.s.kind))) =>
        /\ codec.n = 0
        /\ codec.err # Nil
        /\ codec.after = codec.dst

C18_Witness ==
    /\ codec.op = "write"
    /\ codec.s = [kind |-> uint8Kind, Type |-> 0, Val |-> <<1>>]
    /\ Len(codec.dst) = 7
    /\ codec.n = 0
    /\ codec.err = "invalid setting type"
    /\ codec.after = codec.dst

\* C19, as stated: parseSetting returns an error for a record whose type tag
\* is in the table and whose declared count is not the count the table
\* requires, and UnmarshalBinary returns an error for a record whose tag is
\* not in the table, whose declared count is not the one required, or whose
\* tag requires another width than the receiver's.
C19_DecodeValidatesTable ==
    /\ (codec.op = "parse" /\ Len(codec.data) >= 2
            /\ codec.data[1] \in TableTags /\ codec.data[2] # 1) => codec.err # Nil
    /\ (codec.op = "unmarshal" /\ Len(codec.data) >= 2
            /\ (\/ codec.data[1] \notin TableTags
                \/ codec.data[2] # 1
                \/ TableWidth(codec.data[1]) # WidthOf(codec.w.kind))) => codec.err # Nil

\* C19, amended: parseSetting rejects a record whose type tag is not a tag of
\* the table and reads every other record as the kind the table gives for
\* its tag, with as many values as the record declares, whatever that count
\* is, provided the bytes are there; UnmarshalBinary accepts every record
\* whose bytes are there for the receiver's width, whatever its tag and count.
C19_DecodeTakesKindFromTable ==
    /\ (codec.op = "parse" /\ codec.data # <<>>) =>
            LET data == codec.data IN
            IF data[1] \notin TableTags
            THEN codec.err # Nil /\ codec.settings = <<>>
            ELSE IF Len(data) < 2 \/ Len(data) < 2 + data[2] * TableWidth(data[1])
            THEN codec.err # Nil /\ codec.settings = <<>>
            ELSE /\ codec.settings # <<>>
                 /\ codec.settings[1].kind = TableKind(data[1])
                 /\ codec.settings[1].Type = data[1]
                 /\ Len(codec.settings[1].Val) = data[2]
    /\ (codec.op = "unmarshal" /\ Len(codec.data) >= 2
            /\ Len(codec.data) >= 2 + codec.data[2] * WidthOf(codec.w.kind)) =>
            /\ codec.err = Nil
            /\ codec.after.kind = codec.w.kind
            /\ codec.after.Type = codec.data[1]
            /\ Len(codec.after.Val) = codec.data[2]

C19_Witness ==
    /\ codec.op = "parse"
    /\ codec.data = <<0, 2, 1, 0, 255, 0>>
    /\ codec.err = Nil
    /\ codec.settings = << [kind |-> uint16Kind, Type |-> 0, Val |-> <<1, 255>>] >>

\* C20: UnmarshalBinary returns the unexpected-EOF error and leaves its
\* receiver as it was when the record has fewer than 2 bytes, or fewer than
\* 2 + count * width bytes for the count in its second byte; otherwise it
\* returns no error and the receiver holds the tag of the first byte and
\* count values, each read little-endian from its width bytes.
C20_UnmarshalShortOrWhole ==
    codec.op = "unmarshal" =>
        LET data == codec.data
            width == WidthOf(codec.w.kind) IN
        IF Len(data) < 2 \/ Len(data) < 2 + data[2] * width
        THEN codec.err = "unexpected EOF" /\ codec.after = codec.w
        ELSE /\ codec.err = Nil
             /\ codec.after.Type = data[1]
             /\ Len(codec.after.Val) = data[2]
             /\ \A i \in 1..data[2] :
                    LET at == 2 + (i - 1) * width IN
                    codec.after.Val[i] =
                        CASE width = 1 -> data[at + 1]
                          [] width = 2 -> data[at + 1] + 256 * data[at + 2]
                          [] width = 4 -> data[at + 1] + 256 * data[at + 2]
                                            + 65536 * data[at + 3]
                                            + 16777216 * (IF data[at + 4] < 128
                                                          THEN data[at + 4]
                                                          ELSE data[at + 4] - 256)

C20_Witness ==
    /\ codec.op = "unmarshal"
    /\ codec.w = [kind |-> uint16Kind, Type |-> 1, Val |-> <<14>>]
    /\ codec.data = <<0, 1, 1>>
    /\ codec.err = "unexpected EOF"
    /\ codec.after = codec.w

(***************************************************************************)
(* Claims about the frame decoders, checked under SpecDecode.              *)
(***************************************************************************)
\* the signed value of the 3 little-endian bytes at offset at of data
Signed24(data, at) ==
    data[at + 1] + 256 * data[at + 2] + 65536 * data[at + 3]
        - (IF data[at + 3] >= 128 THEN 16777216 ELSE 0)

\* the signed value of the w little-endian bytes at offset at of data
SignedLE(data, at, w) ==
    CASE w = 1 -> data[at + 1] - (IF data[at + 1] >= 128 THEN 256 ELSE 0)
      [] w = 2 -> data[at + 1] + 256 * data[at + 2]
                    - (IF data[at + 2] >= 128 THEN 65536 ELSE 0)
      [] w = 3 -> Signed24(data, at)

C22_AccDecode ==
    (dec.op = "acc" /\ dec.data # <<>>) =>
        LET data == dec.data IN
        IF data[1] # 2
        THEN ~dec.panic /\ dec.err # Nil /\ dec.after = dec.m
        ELSE IF Len(data) < 10 THEN TRUE
        ELSE IF data[10] \notin {0, 1, 2}
        THEN ~dec.panic /\ dec.err # Nil /\ dec.after = dec.m
        ELSE LET w == data[10] + 1 IN
             Len(data) >= 10 + 3 * w =>
                /\ ~dec.panic
                /\ dec.err = Nil
                /\ dec.after.X = SignedLE(data, 10, w)
                /\ dec.after.Y = SignedLE(data, 10 + w, w)
                /\ dec.after.Z = SignedLE(data, 10 + 2 * w, w)

C22_Witness ==
    /\ dec.op = "acc"
    /\ dec.data = <<2, 1, 2, 3, 4, 5, 6, 7, 8, 0, 127, 128, 255>>
    /\ dec.err = Nil
    /\ dec.after.X = 127
    /\ dec.after.Y = -128
    /\ dec.after.Z = -1

\* C23: the 24-bit decode of the bytes b0, b1, b2 is b0 + 256*b1 + 65536*b2
\* when b2 < 128 and that value less 2^24 otherwise, and lies between
\* -8388608 and 8388607.
C23_LeInt24 ==
    dec.op = "leInt24" =>
        /\ dec.out = dec.b[1] + 256 * dec.b[2] + 65536 * dec.b[3]
                        - (IF dec.b[3] < 128 THEN 0 ELSE 16777216)
        /\ dec.out >= -8388608
        /\ dec.out <= 8388607
        /\ dec.b = <<1, 0, 0>> => dec.out = 1
        /\ dec.b = <<255, 255, 255>> => dec.out = -1
        /\ dec.b = <<0, 0, 128>> => dec.out = -8388608

C23_Witness ==
    /\ dec.op = "leInt24"
    /\ dec.b = <<0, 0, 128>>
    /\ dec.out = -8388608

\* C24: ECG and accelerometer decode of a payload that is empty, or shorter
\* than the 10-byte header, or shorter than the header and the three
\* components of its frame type, returns an error and does not panic.
C24_ShortFrameIsError ==
    /\ (dec.op = "ecg" /\ Len(dec.data) < 10) => (~dec.panic /\ dec.err # Nil)
    /\ (dec.op = "acc"
           /\ (\/ Len(dec.data) < 10
               \/ (dec.data[10] \in {0, 1, 2}
                     /\ Len(dec.data) < 10 + 3 * (dec.data[10] + 1)))) =>
            (~dec.panic /\ dec.err # Nil)


(***************************************************************************)
(* Claims about the monitor, checked under SpecMonitor.                    *)
(***************************************************************************)
\* the consumption loop has a step it can take, now or once the callback
\* that holds the lock has released it
LoopCanStep ==
    \/ mon.loop = "select" /\ (mon.cancelled \/ mon.hrTick = 1)
    \/ mon.loop = "update" /\ mon.display = "live"
    \/ mon.loop = "lock" /\ mon.mu # "loop"
    \/ mon.loop = "add"

\* C25: once the cancellation signal is raised the consumption loop is
\* never left without a step towards its exit: it has exited, or it can
\* step, also when it is handing a frame to a display that receives no more
C25_CancelledLoopExits ==
    (mon.cancelled /\ mon.loop # "exited" /\ ~panicked) => LoopCanStep

\* the callback cannot step: it waits for the lock, or its tick send can
\* neither be taken nor dropped
ProducerBlocked ==
    \/ mon.cb = "lock" /\ mon.mu # "free"
    \/ mon.cb = "send" /\ ~ENABLED EcgSend /\ ~ENABLED EcgDrop

\* the loop cannot step: it waits for the lock, for a tick, or for the
\* display to receive
ConsumerBlocked ==
    \/ mon.loop = "lock" /\ mon.mu # "free"
    \/ mon.loop = "select" /\ ~mon.cancelled /\ mon.hrTick = 0
    \/ mon.loop = "update" /\ mon.display = "gone"

\* C26: the ECG callback never blocks on the loop: holding the lock it can
\* always step, whatever the loop is doing; it and the loop are never both
\* blocked; it releases the lock after exactly one ring write and one send
\* attempt; and a dropped tick leaves the ring's samples as they were
C26_CallbackNeverBlocks ==
    [][/\ (mon.mu = "cb" => ~ProducerBlocked)
       /\ ~(ProducerBlocked /\ ConsumerBlocked /\ mon.mu # "free")
       /\ (mon.cb = "unlock" => mon.writes = 1 /\ mon.attempts = 1)
       /\ (mon.cb = "send" /\ mon'.cb = "unlock" /\ mon'.dropped
              => /\ mon'.ring = mon.ring
                 /\ mon'.loop = mon.loop)]_vars

\* a tick was dropped while the loop was stuck handing a frame to a display
\* that is gone, and the samples written by the callback are in the ring
C26_Witness ==
    /\ mon.cb = "unlock"
    /\ mon.dropped
    /\ mon.loop = "update"
    /\ mon.display = "gone"
    /\ RingLen(mon.ring) >= MonWidth

====
